---- MODULE Spec2Model ----
(***************************************************************************)
(* Model of the Remitano API client (src/src/lib.rs): the digest engine    *)
(* (RemitanoApi::md5, RemitanoApi::hmac) and the request composer          *)
(* (RemitanoApi::request).                                                 *)
(*                                                                         *)
(* Byte strings are TLA+ strings over ASCII, so the UTF-8 bytes of a       *)
(* string are its characters.  The two hash primitives (MD5, HMAC-SHA1)    *)
(* followed by base64::encode are modelled as collision-free term          *)
(* constructors B64Md5 and B64HmacSha1: equal outputs iff equal inputs.    *)
(***************************************************************************)
EXTENDS Integers, Sequences, FiniteSets, TLC

VARIABLES
    key, secret, api_url, timeout_ms,   \* fields of struct RemitanoApi
    now,                                \* the system clock, in seconds
    pc,                                 \* per call: position inside request()
    args,                               \* per call: method, endpoint, params, body
    sys_time,                           \* per call: the value SystemTime::now() returned
    headers,                            \* per call: the local HeaderMap
    request_url, request_str, sig,      \* per call: locals of request()
    req,                                \* per call: what was handed to the transport
    resp,                               \* per call: what the transport returned
    result,                             \* per call: the decoded value
    err,                                \* per call: the error request() returns
    steps,                              \* per call: the steps performed so far
    md5_in, md5_out, hmac_in, hmac_out  \* direct calls of md5() / hmac()

config == <<key, secret, api_url, timeout_ms>>
locals == <<pc, args, sys_time, headers, request_url, request_str, sig, req, resp,
            result, err, steps>>
direct == <<md5_in, md5_out, hmac_in, hmac_out>>
vars   == <<config, now, locals, direct>>

-----------------------------------------------------------------------------
(* Bounds of the model *)

NumCalls == 2       \* concurrent request() calls on the shared client
MaxClock == 2       \* the clock advances at most this many seconds

Calls == 1 .. NumCalls

-----------------------------------------------------------------------------
(* Option<T> and serde_json::Value *)

None    == [t |-> "none"]
Some(v) == [t |-> "some", v |-> v]

Null    == [t |-> "null"]
Bool(b) == [t |-> "bool", b |-> b]
Num(n)  == [t |-> "num", n |-> n]
Str(s)  == [t |-> "str", s |-> s]
Arr(a)  == [t |-> "arr", a |-> a]
\* Map<String, Value> is a BTreeMap: its entries are kept sorted by key
Obj(o)  == [t |-> "obj", o |-> o]

Ok(v)   == [ok |-> TRUE, v |-> v]
Err(e)  == [ok |-> FALSE, e |-> e]

-----------------------------------------------------------------------------
(* serde_json::to_vec *)

EscChar(c) ==
    CASE c = "\"" -> "\\\""
      [] c = "\\" -> "\\\\"
      [] c = "\n" -> "\\n"
      [] OTHER    -> c

RECURSIVE JsonEscape(_)
JsonEscape(s) ==
    IF Len(s) = 0 THEN ""
    ELSE EscChar(SubSeq(s, 1, 1)) \o JsonEscape(SubSeq(s, 2, Len(s)))

JsonQuote(s) == "\"" \o JsonEscape(s) \o "\""

RECURSIVE ToVec(_)
RECURSIVE JoinElems(_)
RECURSIVE JoinMembers(_)
JoinElems(a) ==
    IF Len(a) = 0 THEN ""
    ELSE ToVec(Head(a)) \o (IF Len(a) > 1 THEN "," ELSE "") \o JoinElems(Tail(a))
JoinMembers(o) ==
    IF Len(o) = 0 THEN ""
    ELSE JsonQuote(Head(o)[1]) \o ":" \o ToVec(Head(o)[2])
         \o (IF Len(o) > 1 THEN "," ELSE "") \o JoinMembers(Tail(o))
ToVec(v) ==
    CASE v.t = "null" -> "null"
      [] v.t = "bool" -> IF v.b THEN "true" ELSE "false"
      [] v.t = "num"  -> ToString(v.n)
      [] v.t = "str"  -> JsonQuote(v.s)
      [] v.t = "arr"  -> "[" \o JoinElems(v.a) \o "]"
      [] v.t = "obj"  -> "{" \o JoinMembers(v.o) \o "}"

-----------------------------------------------------------------------------
(* The hash primitives followed by base64::encode *)

B64Md5(bytes)         == "md5<" \o bytes \o ">"
B64HmacSha1(k, bytes) == "hmac-sha1<" \o k \o "|" \o bytes \o ">"

-----------------------------------------------------------------------------
(* RemitanoApi::md5 and RemitanoApi::hmac.  ser_ok is the outcome of       *)
(* serde_json::to_vec, mac_ok that of HmacSha1::new_from_slice.            *)

Md5BytesNullForNone(data) ==
    IF data.t = "none" THEN ToVec(Null)
    ELSE IF data.v.t = "str" THEN data.v.s
    ELSE ToVec(data.v)

\* the bytes md5() hashes: the match of lines 49-55
Md5Bytes(data) ==
    IF data.t = "none" THEN ""
    ELSE IF data.v.t = "str" THEN data.v.s
    ELSE ToVec(data.v)

HmacBytesQuoted(data) ==
    IF data.t = "none" THEN ""
    ELSE ToVec(data.v)

\* the bytes hmac() authenticates: the match of lines 33-39
HmacBytes(data) ==
    IF data.t = "none" THEN ""
    ELSE IF data.v.t = "str" THEN data.v.s
    ELSE ToVec(data.v)

\* does the match in md5()/hmac() reach serde_json::to_vec(..)?
Serializes(data) == data.t = "some" /\ data.v.t # "str"

md5(data, ser_ok) ==
    IF Serializes(data) /\ ~ser_ok THEN Err("serialization")
    ELSE Ok(B64Md5(Md5Bytes(data)))

MacKeyIsKey == key

MacKey == secret

hmac(data, ser_ok, mac_ok) ==
    IF Serializes(data) /\ ~ser_ok THEN Err("serialization")
    ELSE IF ~mac_ok THEN Err("key")
    ELSE Ok(B64HmacSha1(MacKey, HmacBytes(data)))

-----------------------------------------------------------------------------
(* Inputs *)

API_URL == "https://api.remitano.com"
DefaultTimeoutMs == 3000

\* keys a caller may configure; the builder accepts any String
Keys == {"key", "k\ny"}

Methods   == {"GET", "POST"}
Endpoints == {"users/1"}
ParamSet  == { None,
               Some(<< <<"a", Num(1)>>, <<"b", Str("x")>> >>),
               Some(<< <<"q", Str("a b")>> >>) }
BodySet   == { None,
               Some(Str("hash me")),
               Some(Null),
               Some(Obj(<< <<"amount", Num(5)>> >>)) }
AllArgs   == [method : Methods, endpoint : Endpoints, params : ParamSet, body : BodySet]
\* the request each of the concurrent callers issues
ConcArgs(c) ==
    IF c % 2 = 1
    THEN {[method |-> "GET", endpoint |-> "users/1", params |-> None, body |-> None]}
    ELSE {[method |-> "POST", endpoint |-> "users/1",
           params |-> Some(<< <<"q", Str("a b")>> >>), body |-> Some(Str("hash me"))]}

\* values handed to md5() / hmac() directly
DataSet == BodySet \cup { Some(Str("")), Some(Str("say \"hi\"")), Some(Str("null")),
                          Some(Bool(TRUE)), Some(Num(0)),
                          Some(Arr(<<Num(1), Str("a,b"), Null>>)),
                          Some(Obj(<< <<"a", Arr(<<>>)>>, <<"b\\", Str("x\ny")>> >>)) }

\* bodies the server may answer with
ValidReply == Obj(<< <<"ok", Bool(TRUE)>> >>)
Replies    == {ToVec(ValidReply), "<html>"}

-----------------------------------------------------------------------------
(* Library functions used by request() *)

\* http::HeaderValue::from_str rejects control characters
CtlChars == {"\n", "\r"}
IsValidHeaderValue(s) ==
    \A i \in 1 .. Len(s) : SubSeq(s, i, i) \notin CtlChars

\* HeaderMap::insert and HeaderMap::get(..).map_or_else(|| Some(""), ..)
Insert(h, n, v)  == [k \in (DOMAIN h) \cup {n} |-> IF k = n THEN v ELSE h[k]]
HeaderGet(h, n)  == IF n \in DOMAIN h THEN h[n] ELSE ""
NoHeaders        == [k \in {} |-> ""]

\* HttpDate::from(SystemTime).to_string(): IMF-fixdate of a time in the
\* first minute of the epoch
TwoDigits(n)   == IF n < 10 THEN "0" \o ToString(n) ELSE ToString(n)
FmtHttpDate(s) == "Thu, 01 Jan 1970 00:00:" \o TwoDigits(s) \o " GMT"

\* serde_qs::to_string of a flat map with scalar values
QsChar(c) ==
    CASE c = " " -> "+"
      [] c = "&" -> "%26"
      [] c = "=" -> "%3D"
      [] c = "?" -> "%3F"
      [] OTHER   -> c
RECURSIVE QsEncode(_)
QsEncode(s) ==
    IF Len(s) = 0 THEN ""
    ELSE QsChar(SubSeq(s, 1, 1)) \o QsEncode(SubSeq(s, 2, Len(s)))
QsScalar(v) ==
    CASE v.t = "str"  -> QsEncode(v.s)
      [] v.t = "num"  -> ToString(v.n)
      [] v.t = "bool" -> IF v.b THEN "true" ELSE "false"
RECURSIVE QsToString(_)
QsToString(m) ==
    IF Len(m) = 0 THEN ""
    ELSE QsEncode(Head(m)[1]) \o "=" \o QsScalar(Head(m)[2])
         \o (IF Len(m) > 1 THEN "&" ELSE "") \o QsToString(Tail(m))

\* Response::json: serde_json::from_slice into the caller's type
FromSlice(bytes) ==
    IF bytes = ToVec(ValidReply) THEN Ok(ValidReply) ELSE Err("decode")

-----------------------------------------------------------------------------
(* RemitanoApi::request *)

USER_AGENT_VALUE ==
    "Mozilla/5.0 (Macintosh; Intel Mac OS X 10.15; rv:85.0) Gecko/20100101 Firefox/85.0"

\* the `?` operator: continue on Ok, return the error otherwise
TryIgnoringError(e, next) == next

Try(e, next) == IF e = "none" THEN next ELSE "failed"

\* lines 82-86
Query(params, qs_ok) ==
    IF params.t = "some"
    THEN IF qs_ok THEN Ok("?" \o QsToString(params.v)) ELSE Err("query")
    ELSE Ok("")

\* line 88
RequestUrl(endpoint, query) == "api/v1/" \o endpoint \o query

\* lines 92-95 and 97-100: the fields read back from the call's own HeaderMap
CanonDigestOfLatestCall(c) ==
    LET built == {k \in Calls : "Content-MD5" \in DOMAIN headers[k]}
        last  == CHOOSE k \in built : \A j \in built : j <= k
    IN  HeaderGet(headers[last], "Content-MD5")

CanonDigest(c) == HeaderGet(headers[c], "Content-MD5")

CanonDateFromClock(c) == FmtHttpDate(now)

CanonDate(c) == HeaderGet(headers[c], "Date")

\* lines 89-101
RequestStrNoSlash(method, digest, url, date) ==
    method \o ",application/json," \o digest \o "," \o url \o "," \o date

RequestStr(method, digest, url, date) ==
    method \o ",application/json," \o digest \o ",/" \o url \o "," \o date

\* line 105
AuthValue(k, s) == "APIAuth " \o k \o ":" \o s

\* line 110
DispatchUrlWithoutQuery(c) == api_url \o "/" \o RequestUrl(args[c].endpoint, "")

DispatchUrl(c) == api_url \o "/" \o request_url[c]

\* line 112: RequestBuilder::json(&body.unwrap_or_default())
DispatchBody(body) == ToVec(IF body.t = "some" THEN body.v ELSE Null)

Fresh(f, c, v) == [f EXCEPT ![c] = v]

NoArgs == [method |-> "", endpoint |-> "", params |-> None, body |-> None]

\* `?` on an Err: request() returns the error at once and its locals are
\* dropped; what the transport was handed, and the record of the steps
\* performed, remain
Abort(c, e, next) ==
    /\ pc' = Fresh(pc, c, Try(e, next))
    /\ err' = Fresh(err, c, e)
    /\ args' = Fresh(args, c, NoArgs)
    /\ sys_time' = Fresh(sys_time, c, 0)
    /\ headers' = Fresh(headers, c, NoHeaders)
    /\ request_url' = Fresh(request_url, c, "")
    /\ request_str' = Fresh(request_str, c, "")
    /\ sig' = Fresh(sig, c, "")
    /\ resp' = Fresh(resp, c, None)
    /\ UNCHANGED <<config, now, direct, req, result, steps>>

\* the caller invokes request(method, endpoint, params, body)
Start(c, inputs) ==
    /\ pc[c] = "idle"
    /\ \E a \in inputs : args' = Fresh(args, c, a)
    /\ pc' = Fresh(pc, c, "headers")
    /\ UNCHANGED <<config, now, direct, sys_time, headers, request_url,
                   request_str, sig, req, resp, result, err, steps>>

\* lines 71-80
BuildHeaders(c) ==
    /\ pc[c] = "headers"
    /\ \E ser_ok \in BOOLEAN :
         LET d    == md5(args[c].body, ser_ok)
             date == FmtHttpDate(now)
             e    == IF ~d.ok THEN d.e
                     ELSE IF ~IsValidHeaderValue(d.v) \/ ~IsValidHeaderValue(date)
                          THEN "header" ELSE "none"
             h1   == [k \in {"User-Agent", "Accept", "Content-Type"} |->
                        IF k = "User-Agent" THEN USER_AGENT_VALUE ELSE "application/json"]
         IN  IF e = "none"
             THEN /\ pc' = Fresh(pc, c, Try(e, "canonical"))
                  /\ headers' = Fresh(headers, c,
                                      Insert(Insert(h1, "Content-MD5", d.v), "Date", date))
                  /\ sys_time' = Fresh(sys_time, c, now)
                  /\ steps' = Fresh(steps, c, steps[c] \cup {"digest", "date"})
                  /\ UNCHANGED <<config, now, direct, args, request_url, request_str,
                                 sig, req, resp, result, err>>
             ELSE Abort(c, e, "canonical")

\* lines 82-101
BuildCanonical(c) ==
    /\ pc[c] = "canonical"
    /\ \E qs_ok \in BOOLEAN :
         LET q   == Query(args[c].params, qs_ok)
             e   == IF q.ok THEN "none" ELSE q.e
             url == RequestUrl(args[c].endpoint, IF q.ok THEN q.v ELSE "")
         IN  IF e = "none"
             THEN /\ pc' = Fresh(pc, c, Try(e, "sign"))
                  /\ request_url' = Fresh(request_url, c, url)
                  /\ request_str' = Fresh(request_str, c,
                         RequestStr(args[c].method, CanonDigest(c), url, CanonDate(c)))
                  /\ steps' = Fresh(steps, c, steps[c] \cup {"query", "canonical"})
                  /\ UNCHANGED <<config, now, direct, args, sys_time, headers, sig,
                                 req, resp, result, err>>
             ELSE Abort(c, e, "sign")

\* lines 102-106
Sign(c) ==
    /\ pc[c] = "sign"
    /\ \E mac_ok \in BOOLEAN :
         LET s    == hmac(Some(Str(request_str[c])), TRUE, mac_ok)
             auth == AuthValue(key, IF s.ok THEN s.v ELSE "")
             e    == IF ~s.ok THEN s.e
                     ELSE IF ~IsValidHeaderValue(auth) THEN "header" ELSE "none"
         IN  IF e = "none"
             THEN /\ pc' = Fresh(pc, c, Try(e, "dispatch"))
                  /\ sig' = Fresh(sig, c, s.v)
                  /\ headers' = Fresh(headers, c, Insert(headers[c], "Authorization", auth))
                  /\ steps' = Fresh(steps, c, steps[c] \cup {"sign", "auth"})
                  /\ UNCHANGED <<config, now, direct, args, sys_time, request_url,
                                 request_str, req, resp, result, err>>
             ELSE Abort(c, e, "dispatch")

\* lines 108-114: the request is handed to the transport
Send(c) ==
    /\ pc[c] = "dispatch"
    /\ req' = Fresh(req, c, Some([method  |-> args[c].method,
                                  url     |-> DispatchUrl(c),
                                  headers |-> headers[c],
                                  body    |-> DispatchBody(args[c].body),
                                  timeout |-> timeout_ms]))
    /\ steps' = Fresh(steps, c, steps[c] \cup {"sent"})
    /\ pc' = Fresh(pc, c, "await")
    /\ UNCHANGED <<config, now, direct, args, sys_time, headers, request_url,
                   request_str, sig, resp, result, err>>

\* line 115: send().await? -- the transport fails (network error, timeout)
\* or returns a response, whose status is not inspected
Respond(c) ==
    /\ pc[c] = "await"
    /\ \E r \in {Err("transport")} \cup {Ok(b) : b \in Replies} :
         LET e == IF r.ok THEN "none" ELSE r.e
         IN  IF e = "none"
             THEN /\ pc' = Fresh(pc, c, Try(e, "decode"))
                  /\ resp' = Fresh(resp, c, Some(r.v))
                  /\ steps' = Fresh(steps, c, steps[c] \cup {"received"})
                  /\ UNCHANGED <<config, now, direct, args, sys_time, headers,
                                 request_url, request_str, sig, req, result, err>>
             ELSE Abort(c, e, "decode")

\* lines 116-119: json().await? and Ok(resp)
Decode(c) ==
    /\ pc[c] = "decode"
    /\ LET r == FromSlice(IF resp[c].t = "some" THEN resp[c].v ELSE "")
           e == IF r.ok THEN "none" ELSE r.e
       IN  IF e = "none"
           THEN /\ pc' = Fresh(pc, c, Try(e, "done"))
                /\ result' = Fresh(result, c, Some(r.v))
                /\ steps' = Fresh(steps, c, steps[c] \cup {"decoded"})
                /\ UNCHANGED <<config, now, direct, args, sys_time, headers,
                               request_url, request_str, sig, req, resp, err>>
           ELSE Abort(c, e, "done")

\* the caller has taken Ok(resp) or Err(..); the call is over
Return(c) ==
    /\ pc[c] \in {"done", "failed"}
    /\ pc' = Fresh(pc, c, "idle")
    /\ args' = Fresh(args, c, NoArgs)
    /\ sys_time' = Fresh(sys_time, c, 0)
    /\ headers' = Fresh(headers, c, NoHeaders)
    /\ request_url' = Fresh(request_url, c, "")
    /\ request_str' = Fresh(request_str, c, "")
    /\ sig' = Fresh(sig, c, "")
    /\ req' = Fresh(req, c, None)
    /\ resp' = Fresh(resp, c, None)
    /\ result' = Fresh(result, c, None)
    /\ err' = Fresh(err, c, "none")
    /\ steps' = Fresh(steps, c, {})
    /\ UNCHANGED <<config, now, direct>>

\* time passes
Tick ==
    /\ now < MaxClock
    /\ now' = now + 1
    /\ UNCHANGED <<config, locals, direct>>

\* direct calls of the digest engine, as the unit tests make them
CallMd5(data) ==
    /\ \E ser_ok \in BOOLEAN :
         /\ md5_in' = data
         /\ md5_out' = md5(data, ser_ok)
    /\ UNCHANGED <<config, now, locals, hmac_in, hmac_out>>

CallHmac(data) ==
    /\ \E ser_ok \in BOOLEAN, mac_ok \in BOOLEAN :
         /\ hmac_in' = data
         /\ hmac_out' = hmac(data, ser_ok, mac_ok)
    /\ UNCHANGED <<config, now, locals, md5_in, md5_out>>

-----------------------------------------------------------------------------
(* Specifications *)

\* RemitanoApiBuilder::build(): key and secret given, api_url and timeout_ms defaulted
Init ==
    /\ key \in Keys
    /\ secret = "secret"
    /\ api_url = API_URL
    /\ timeout_ms = DefaultTimeoutMs
    /\ now = 0
    /\ pc = [c \in Calls |-> "idle"]
    /\ args = [c \in Calls |-> NoArgs]
    /\ sys_time = [c \in Calls |-> 0]
    /\ headers = [c \in Calls |-> NoHeaders]
    /\ request_url = [c \in Calls |-> ""]
    /\ request_str = [c \in Calls |-> ""]
    /\ sig = [c \in Calls |-> ""]
    /\ req = [c \in Calls |-> None]
    /\ resp = [c \in Calls |-> None]
    /\ result = [c \in Calls |-> None]
    /\ err = [c \in Calls |-> "none"]
    /\ steps = [c \in Calls |-> {}]
    /\ md5_in = None
    /\ md5_out = Err("not called")
    /\ hmac_in = None
    /\ hmac_out = Err("not called")

\* one caller issuing requests one after another
Next ==
    \/ Tick
    \/ Start(1, AllArgs)
    \/ BuildHeaders(1)
    \/ BuildCanonical(1)
    \/ Sign(1)
    \/ Send(1)
    \/ Respond(1)
    \/ Decode(1)
    \/ Return(1)

Spec == Init /\ [][Next]_vars

\* several callers sharing the client, their request() calls interleaved
NextConc ==
    \/ Tick
    \/ \E c \in Calls :
         \/ Start(c, ConcArgs(c))
         \/ BuildHeaders(c)
         \/ BuildCanonical(c)
         \/ Sign(c)
         \/ Send(c)
         \/ Respond(c)
         \/ Decode(c)
         \/ Return(c)

SpecConc == Init /\ [][NextConc]_vars

\* the digest engine called directly
NextDigest == \E data \in DataSet : CallMd5(data) \/ CallHmac(data)

SpecDigest == Init /\ [][NextDigest]_vars

-----------------------------------------------------------------------------
(* Properties *)

\* the call has handed its request to the transport and still holds its locals
InFlight(c) == pc[c] \in {"await", "decode", "done"} /\ req[c].t = "some"

\* the canonical string of the call has been built
Composed(c) == pc[c] \in {"sign", "dispatch", "await", "decode", "done"}

GetUser1 == [method |-> "GET", endpoint |-> "users/1", params |-> None, body |-> None]

AllSteps == {"digest", "date", "query", "canonical", "sign", "auth", "sent",
             "received", "decoded"}

\* C1, as stated: for GET users/1 without query and body the signed string is
\* "GET,application/json,D,api/v1/users/1,T", its path field without a
\* leading slash (D, T: the Content-MD5 and Date header values)
C1_CanonicalWithoutLeadingSlash ==
    \A c \in Calls :
        (Composed(c) /\ args[c] = GetUser1) =>
            request_str[c] = "GET,application/json,"
                             \o HeaderGet(headers[c], "Content-MD5")
                             \o ",api/v1/users/1,"
                             \o HeaderGet(headers[c], "Date")

\* C1, amended: for GET users/1 without query and body the signed string is
\* "GET,application/json,D,/api/v1/users/1,T": the path field carries a
\* leading slash
C1_CanonicalWithLeadingSlash ==
    \A c \in Calls :
        (Composed(c) /\ args[c] = GetUser1) =>
            request_str[c] = "GET,application/json,"
                             \o HeaderGet(headers[c], "Content-MD5")
                             \o ",/api/v1/users/1,"
                             \o HeaderGet(headers[c], "Date")

C1_Witness == \E c \in Calls : InFlight(c) /\ args[c] = GetUser1

\* C2: in every call that reaches dispatch, the Content-MD5 and Date header
\* values handed to the transport are the digest and timestamp fields of the
\* string that was signed, and the Date is the one clock reading of the call,
\* however far the clock has advanced since
C2_HeadersMatchCanonical ==
    \A c \in Calls :
        InFlight(c) =>
            LET h == req[c].v.headers
            IN  /\ {"Content-MD5", "Date"} \subseteq DOMAIN h
                /\ request_str[c] = args[c].method \o ",application/json,"
                                    \o h["Content-MD5"] \o ",/" \o request_url[c]
                                    \o "," \o h["Date"]
                /\ h["Date"] = FmtHttpDate(sys_time[c])

C2_Witness == \E c \in Calls : InFlight(c) /\ now > sys_time[c]

\* C3: in every call that reaches dispatch, the Authorization header handed
\* to the transport is "APIAuth " + key + ":" + the HMAC, keyed by the
\* secret, of the raw bytes of the canonical string of that call
C3_AuthorizationSignsCanonical ==
    \A c \in Calls :
        InFlight(c) =>
            LET h == req[c].v.headers
            IN  /\ "Authorization" \in DOMAIN h
                /\ h["Authorization"] =
                       "APIAuth " \o key \o ":" \o B64HmacSha1(secret, request_str[c])

C3_Witness ==
    \E c \in Calls : InFlight(c) /\ args[c].method = "POST" /\ args[c].body.t = "some"

\* C4: for an absent value md5() and hmac() hash the empty byte sequence,
\* and md5(None) differs from md5 of the JSON literal null
C4_AbsentHashesEmpty ==
    /\ (md5_in = None /\ md5_out.ok) => md5_out.v = B64Md5("")
    /\ (hmac_in = None /\ hmac_out.ok) => hmac_out.v = B64HmacSha1(secret, "")
    /\ (md5_in = Some(Null) /\ md5_out.ok) =>
           /\ md5_out.v = B64Md5("null")
           /\ md5_out.v # B64Md5("")

C4_Witness == md5_in = None /\ md5_out.ok /\ hmac_in = None /\ hmac_out.ok

\* the bytes of a present value: a string's own bytes, any other value's JSON
SignableBytes(v) == IF v.t = "str" THEN v.s ELSE ToVec(v)

\* C5: md5() and hmac() hash a string's raw bytes, never its JSON-quoted
\* form, hash every other value as its JSON serialization, and extract the
\* same bytes from every input
C5_StringsHashedRaw ==
    /\ (md5_in.t = "some" /\ md5_out.ok) =>
           /\ md5_out.v = B64Md5(SignableBytes(md5_in.v))
           /\ md5_in.v.t = "str" => md5_out.v # B64Md5(JsonQuote(md5_in.v.s))
    /\ (hmac_in.t = "some" /\ hmac_out.ok) =>
           /\ hmac_out.v = B64HmacSha1(secret, SignableBytes(hmac_in.v))
           /\ hmac_in.v.t = "str" =>
                  hmac_out.v # B64HmacSha1(secret, JsonQuote(hmac_in.v.s))
    /\ \A d \in DataSet : Md5Bytes(d) = HmacBytes(d)

C5_Witness ==
    /\ md5_in = Some(Str("say \"hi\"")) /\ md5_out.ok
    /\ hmac_in = Some(Str("hash me")) /\ hmac_out.ok

\* C6, as stated: a call without a body hands the transport an empty body
C6_AbsentBodySentEmpty ==
    \A c \in Calls :
        (InFlight(c) /\ args[c].body = None) => req[c].v.body = ""

\* C7: a call completes every step and returns a value, or returns the first
\* error and performs no later step: after a serialization, header, query or
\* key error nothing is handed to the transport, after a transport error
\* nothing is decoded
C7_FirstErrorShortCircuits ==
    \A c \in Calls :
        /\ pc[c] = "done" =>
               /\ err[c] = "none" /\ steps[c] = AllSteps
               /\ req[c].t = "some" /\ result[c].t = "some"
        /\ err[c] # "none" => pc[c] = "failed" /\ result[c] = None
        /\ pc[c] = "failed" => err[c] # "none"
        /\ err[c] = "serialization" => steps[c] = {}
        /\ err[c] = "query" => steps[c] = {"digest", "date"}
        /\ err[c] = "key" => steps[c] = {"digest", "date", "query", "canonical"}
        /\ err[c] \in {"serialization", "header", "query", "key"} =>
               /\ req[c] = None
               /\ steps[c] \cap {"sent", "received", "decoded"} = {}
        /\ err[c] = "transport" => steps[c] = AllSteps \ {"received", "decoded"}
        /\ err[c] = "decode" => steps[c] = AllSteps \ {"decoded"}

C7_Witness ==
    \E c \in Calls : pc[c] = "failed" /\ err[c] = "header" /\ req[c] = None

\* C8: supplied query parameters are serialized once, after "?", and the same
\* string stands in the dispatched URL and in the path field of the signed
\* string; without parameters neither has a "?" suffix
C8_QueryInUrlAndCanonical ==
    \A c \in Calls :
        InFlight(c) =>
            LET q == IF args[c].params.t = "some"
                     THEN "?" \o QsToString(args[c].params.v) ELSE ""
                h == req[c].v.headers
            IN  /\ req[c].v.url = api_url \o "/api/v1/" \o args[c].endpoint \o q
                /\ request_str[c] = args[c].method \o ",application/json,"
                                    \o h["Content-MD5"]
                                    \o ",/api/v1/" \o args[c].endpoint \o q
                                    \o "," \o h["Date"]
                /\ args[c].params = Some(<< <<"a", Num(1)>>, <<"b", Str("x")>> >>) =>
                       req[c].v.url = "https://api.remitano.com/api/v1/users/1?a=1&b=x"

C8_Witness ==
    \E c \in Calls :
        InFlight(c) /\ args[c].params = Some(<< <<"a", Num(1)>>, <<"b", Str("x")>> >>)

\* what a call must have built, from its own arguments, the configuration
\* and its own clock reading alone
ExpectedDigest(c) == B64Md5(IF args[c].body.t = "some"
                            THEN SignableBytes(args[c].body.v) ELSE "")
ExpectedUrl(c) ==
    "api/v1/" \o args[c].endpoint
    \o (IF args[c].params.t = "some" THEN "?" \o QsToString(args[c].params.v) ELSE "")
ExpectedStr(c) ==
    args[c].method \o ",application/json," \o ExpectedDigest(c) \o ",/"
    \o ExpectedUrl(c) \o "," \o FmtHttpDate(sys_time[c])
ExpectedSig(c) == B64HmacSha1(secret, ExpectedStr(c))

OwnValuesOnly(c) ==
    /\ pc[c] \in {"canonical", "sign", "dispatch", "await", "decode", "done"} =>
           /\ headers[c]["Content-MD5"] = ExpectedDigest(c)
           /\ headers[c]["Date"] = FmtHttpDate(sys_time[c])
    /\ Composed(c) =>
           /\ request_url[c] = ExpectedUrl(c)
           /\ request_str[c] = ExpectedStr(c)
    /\ pc[c] \in {"dispatch", "await", "decode", "done"} =>
           /\ sig[c] = ExpectedSig(c)
           /\ headers[c]["Authorization"] = "APIAuth " \o key \o ":" \o ExpectedSig(c)
    /\ InFlight(c) =>
           /\ req[c].v.url = api_url \o "/" \o ExpectedUrl(c)
           /\ req[c].v.headers = headers[c]
           /\ req[c].v.timeout = timeout_ms

\* C9: under every interleaving of concurrent calls the client's key, secret,
\* api_url and timeout_ms never change, and what each call builds is
\* determined by its own arguments, the configuration and its own clock
\* reading
C9_CallsIndependent ==
    /\ [](\A c \in Calls : OwnValuesOnly(c))
    /\ [][config' = config]_vars

C9_Witness ==
    /\ InFlight(1) /\ InFlight(2)
    /\ args[1] # args[2]
    /\ sys_time[1] # sys_time[2]

\* C10, as stated: the Content-MD5 header handed to the transport is the
\* content hash of the body bytes handed to the transport with it
C10_DigestOfSentBody ==
    \A c \in Calls :
        InFlight(c) => req[c].v.headers["Content-MD5"] = B64Md5(req[c].v.body)

====
